---- MODULE Spec2Model ----
(***************************************************************************)
(* Model of invertpy/brain/synapses.py: the sparse decorrelated            *)
(* connectivity generator (sparse_synapses) as a state machine with one    *)
(* action per loop step, and the deterministic pattern builders            *)
(* (uniform, diagonal, opposing, sinusoidal, chessboard, pattern, roll)    *)
(* as operators applied by one action each.                                *)
(*                                                                         *)
(* Matrices are records [shape |-> <<rows, cols>>, at |-> [row -> [col ->  *)
(* value]]] with 0-based indices, so that a matrix with no rows keeps its  *)
(* number of columns, as a numpy array does.                               *)
(*                                                                         *)
(* Weights of sparse_synapses are held in units of 1/Scale, Scale being a  *)
(* common multiple of every fan-in target the model can draw: 1/target is  *)
(* the integer Scale \div target and every sum, product and comparison of  *)
(* the code is exact integer arithmetic here.  Floating-point rounding of  *)
(* the similarity quotient (1 ulp) is not modelled; the thresholds in      *)
(* MinCorrs keep clear of every similarity value the bounds can produce,   *)
(* except 0, where the code's comparison is exact (x - x = 0).             *)
(***************************************************************************)
EXTENDS Integers, Sequences, FiniteSets, TLC

VARIABLES
    pc,          \* position in sparse_synapses
    nb_in, nb_out, nb_in_min, nb_in_max, min_corr, normalise,  \* its arguments / locals
    w,           \* weight matrix (units of 1/Scale)
    nb_out_in,   \* fan-in target per output unit
    c_out_in,    \* accumulated connections per output unit
    duplicates,  \* regeneration set
    i,           \* current input index
    call,        \* the last call of a deterministic builder
    ret          \* what that call returned

sparse_vars == <<pc, nb_in, nb_out, nb_in_min, nb_in_max, min_corr, normalise,
                 w, nb_out_in, c_out_in, duplicates, i>>
builder_vars == <<call, ret>>
vars == <<pc, nb_in, nb_out, nb_in_min, nb_in_max, min_corr, normalise,
          w, nb_out_in, c_out_in, duplicates, i, call, ret>>

---------------------------------------------------------------------------
(* Bounds *)

MaxNbIn == 3
MaxNbOut == 2
\* dimensions of the deterministic builders, of the matrices rolled, and the shifts
MaxDim == 5
MaxRollDim == 3
MaxShift == 2
\* nb_in of the calls that leave the fan-in bounds to their defaults
MaxDefaultNbIn == 260

\* An optional argument: <<>> is None, <<v>> is the value v.
None == <<>>
Some(v) == <<v>>
IsNone(o) == o = <<>>
Val(o) == o[1]
Opt(S) == {None} \cup {Some(v) : v \in S}

Max(a, b) == IF a >= b THEN a ELSE b
Min(a, b) == IF a <= b THEN a ELSE b

RECURSIVE Fact(_)
Fact(n) == IF n <= 1 THEN 1 ELSE n * Fact(n - 1)

\* The unit of weight is 1/Scale.
Scale == Fact(MaxNbIn)

\* min_corr arguments as rationals <<p, q>>, q > 0: -1/5, 0, 1/5 (the default), 3/5.
MinCorrs == {<<0 - 1, 5>>, <<0, 1>>, <<1, 5>>, <<3, 5>>}

RECURSIVE SumOver(_, _)
SumOver(S, f) ==
    IF S = {} THEN 0
    ELSE LET x == CHOOSE y \in S : TRUE IN f[x] + SumOver(S \ {x}, f)

\* All orderings of a finite set, as sequences.
Permutations_(S) ==
    {p \in [1..Cardinality(S) -> S] : \A a, b \in 1..Cardinality(S) : a # b => p[a] # p[b]}

---------------------------------------------------------------------------
(* numpy primitives *)

\* the indices of an axis of length n
Idx(n) == 0..(n - 1)

\* the r x c matrix whose entry (x, y) is f[x, y]
Mat(r, c, f) ==
    [shape |-> <<r, c>>, at |-> [x \in Idx(r) |-> [y \in Idx(c) |-> f[x, y]]]]

Rows(m) == m.shape[1]
Cols(m) == m.shape[2]

\* np.full((r, c), v)
np_full(r, c, v) == Mat(r, c, [x \in Idx(r), y \in Idx(c) |-> v])

\* np.eye(r, c)
np_eye(r, c) == Mat(r, c, [x \in Idx(r), y \in Idx(c) |-> IF x = y THEN 1 ELSE 0])

\* np.tile(a, (nr, nc))
np_tile(a, nr, nc) ==
    Mat(nr * Rows(a), nc * Cols(a),
        [x \in Idx(nr * Rows(a)), y \in Idx(nc * Cols(a)) |->
            a.at[x % Rows(a)][y % Cols(a)]])

\* np.kron(a, b)
np_kron(a, b) ==
    Mat(Rows(a) * Rows(b), Cols(a) * Cols(b),
        [x \in Idx(Rows(a) * Rows(b)), y \in Idx(Cols(a) * Cols(b)) |->
            a.at[x \div Rows(b)][y \div Cols(b)] * b.at[x % Rows(b)][y % Cols(b)]])

\* fill_value * a
scale_mat(v, a) == Mat(Rows(a), Cols(a),
        [x \in Idx(Rows(a)), y \in Idx(Cols(a)) |-> v * a.at[x][y]])

\* np.full(n, v) as a sequence
np_full1(n, v) == [x \in 1..n |-> v]

---------------------------------------------------------------------------
(* uniform_synapses *)

Bias(bias, n) == IF IsNone(bias) THEN None ELSE Some(np_full1(n, Val(bias)))

uniform_synapses(n_in, n_out, fill_value, bias) ==
    [w |-> np_full(n_in, n_out, fill_value), bias |-> Bias(bias, n_out), raised |-> "none"]

---------------------------------------------------------------------------
(* sparse_synapses *)

\* max(int(nb_in * 6. / 1000.), 1): int() truncates; the float quotient of two exact
\* integers has the integer part of the exact quotient
DefaultMin(n) == Max((n * 6) \div 1000, 1)

\* The default upper bound, rounded to the nearest integer instead of truncated
DefaultMax_Rounded(n) == Max((n * 14 + 500) \div 1000, 1)

\* max(int(nb_in * 14. / 1000.), 1)
DefaultMax(n) == Max((n * 14) \div 1000, 1)

\* np.clip(min_corr, 0, 1) on a rational <<p, q>>
Clip(m) == IF m[1] < 0 THEN <<0, 1>> ELSE IF m[1] > m[2] THEN <<1, 1>> ELSE m

\* The values int(u * (hi - lo) + lo) takes for u in [0, 1), the sum taken exactly
Targets(lo, hi) == IF hi > lo THEN lo..(hi - 1) ELSE {lo}

Outs == 0..(nb_out - 1)
Ins == 0..(nb_in - 1)

SumC == SumOver(Outs, c_out_in)
SumT == SumOver(Outs, nb_out_in)

\* One visit of the for loop (lines 199-207): st = [w, i, c]
Visit(st, j) ==
    IF st.c[j] >= nb_out_in[j] \/ st.w[st.i][j] > 0
    THEN st
    ELSE [w |-> [st.w EXCEPT ![st.i][j] =
                    IF normalise THEN Scale \div nb_out_in[j] ELSE Scale],
          i |-> (st.i + 1) % nb_in,
          c |-> [st.c EXCEPT ![j] = @ + 1]]

RECURSIVE ForLoop(_, _, _)
ForLoop(st, j_s, k) ==
    IF k > Len(j_s) THEN st ELSE ForLoop(Visit(st, j_s[k]), j_s, k + 1)

\* The pass without the forced advance of lines 208-209
PassResult_NoForcedAdvance(j_s) ==
    ForLoop([w |-> w.at, i |-> i, c |-> c_out_in], j_s, 1)

\* One iteration of 'while c_out_in.sum() < nb_out_in.sum()' (lines 197-209)
PassResult(j_s) ==
    LET st == ForLoop([w |-> w.at, i |-> i, c |-> c_out_in], j_s, 1)
    IN [st EXCEPT !.i = IF st.i = i THEN (st.i + 1) % nb_in ELSE st.i]

\* np.dot(w.T, w)[j, k]
Dot(m, j, k) == SumOver(0..(Rows(m) - 1), [x \in 0..(Rows(m) - 1) |-> m.at[x][j] * m.at[x][k]])

\* c[j, k] is 0/0 = NaN when a column has norm 0
IsNaN(m, j, k) == Dot(m, j, j) = 0 \/ Dot(m, k, k) = 0

\* c[j, k] >= p/q for p/q >= 0, c = dot / (norm_j * norm_k), when c is not NaN
CorrGE(m, j, k, t) ==
    (Dot(m, j, k) * t[2]) * (Dot(m, j, k) * t[2]) >= t[1] * t[1] * Dot(m, j, j) * Dot(m, k, k)

\* np.greater_equal(c - np.diag(np.diagonal(c)), min_corr)[j, k]; a comparison with NaN is False
GreaterEqual(m, j, k, t) ==
    /\ ~IsNaN(m, j, k)
    /\ IF j = k THEN t[1] <= 0 ELSE CorrGE(m, j, k, t)

\* line 212
Duplicates(m, t) ==
    {k \in 0..(Cols(m) - 1) : \E j \in 0..(Cols(m) - 1) : GreaterEqual(m, j, k, t)}

\* w[:, cols] = 0.
ZeroColumns(m, cols) ==
    Mat(Rows(m), Cols(m),
        [x \in Idx(Rows(m)), y \in Idx(Cols(m)) |-> IF y \in cols THEN 0 ELSE m.at[x][y]])

\* rng.permutation(w): rows reordered by p, a sequence over 0..rows-1
PermuteRows(m, p) == Mat(Rows(m), Cols(m),
        [x \in Idx(Rows(m)), y \in Idx(Cols(m)) |-> m.at[p[x + 1]][y]])

\* lines 178-191
Enter ==
    /\ pc = "call"
    /\ w' = uniform_synapses(nb_in, nb_out, 0, None).w
    /\ nb_in_min' = IF IsNone(nb_in_min) THEN Some(DefaultMin(nb_in)) ELSE nb_in_min
    /\ nb_in_max' = IF IsNone(nb_in_max) THEN Some(DefaultMax(nb_in)) ELSE nb_in_max
    /\ min_corr' = Clip(min_corr)
    /\ nb_out_in' \in [Outs -> Targets(Val(nb_in_min'), Val(nb_in_max'))]
    /\ c_out_in' = [j \in Outs |-> 0]
    /\ duplicates' = Outs
    /\ pc' = "outer"
    /\ UNCHANGED <<nb_in, nb_out, normalise, i, call, ret>>

\* lines 193-195; rng.randint(0, nb_in - 1) raises ValueError when nb_in - 1 <= 0
Begin ==
    /\ pc = "outer"
    /\ duplicates # {}
    /\ IF nb_in - 1 <= 0
       THEN /\ pc' = "ValueError"
            /\ UNCHANGED <<i, w>>
       ELSE /\ i' \in 0..(nb_in - 2)
            /\ w' = ZeroColumns(w, duplicates)
            /\ pc' = "inner"
    /\ UNCHANGED <<nb_in, nb_out, nb_in_min, nb_in_max, min_corr, normalise,
                   nb_out_in, c_out_in, duplicates, call, ret>>

\* lines 196-209, one iteration
Pass ==
    /\ pc = "inner"
    /\ SumC < SumT
    /\ \E j_s \in Permutations_(duplicates) :
          LET st == PassResult(j_s) IN
          /\ w' = [w EXCEPT !.at = st.w]
          /\ i' = st.i
          /\ c_out_in' = st.c
    /\ UNCHANGED <<pc, nb_in, nb_out, nb_in_min, nb_in_max, min_corr, normalise,
                   nb_out_in, duplicates, call, ret>>

\* lines 211-213
Similarity ==
    /\ pc = "inner"
    /\ ~(SumC < SumT)
    /\ duplicates' = Duplicates(w, min_corr)
    /\ pc' = "outer"
    /\ UNCHANGED <<nb_in, nb_out, nb_in_min, nb_in_max, min_corr, normalise,
                   w, nb_out_in, c_out_in, i, call, ret>>

\* lines 215-220
Return ==
    /\ pc = "outer"
    /\ duplicates = {}
    /\ \E p \in Permutations_(Ins) : w' = PermuteRows(w, p)
    /\ pc' = "returned"
    /\ UNCHANGED <<nb_in, nb_out, nb_in_min, nb_in_max, min_corr, normalise,
                   nb_out_in, c_out_in, duplicates, i, call, ret>>

NoCall == [fn |-> "none"]
NoRet == [raised |-> "pending"]

\* sparse_synapses is about to be called with nb_in_min <= nb_in_max <= nb_in, set or
\* defaulted; nb_in = 1 is kept, where rng.randint(0, 0) raises.
Init ==
    /\ pc = "call"
    /\ nb_in \in 1..MaxNbIn
    /\ nb_out \in 1..MaxNbOut
    /\ nb_in_min \in Opt(1..nb_in)
    /\ nb_in_max \in Opt(1..nb_in)
    /\ (IF IsNone(nb_in_min) THEN DefaultMin(nb_in) ELSE Val(nb_in_min))
         <= (IF IsNone(nb_in_max) THEN DefaultMax(nb_in) ELSE Val(nb_in_max))
    /\ min_corr \in MinCorrs
    /\ normalise \in BOOLEAN
    /\ w = np_full(0, 0, 0)
    /\ nb_out_in = <<>>
    /\ c_out_in = <<>>
    /\ duplicates = {}
    /\ i = 0
    /\ call = NoCall
    /\ ret = NoRet

Next == Enter \/ Begin \/ Pass \/ Similarity \/ Return

Spec == Init /\ [][Next]_vars

\* The interpreter runs the call to its end: every enabled step is eventually taken.
FairSpec == Init /\ [][Next]_vars /\ WF_vars(Next)

---------------------------------------------------------------------------
(* diagonal_synapses, lines 131-144 *)

diagonal_synapses(n_in, n_out, fill_value, tile, bias) ==
    LET wt == IF tile /\ n_in \div n_out > 1
              THEN scale_mat(fill_value, np_tile(np_eye(n_out, n_out), n_in \div n_out, 1))
              ELSE IF tile /\ n_out \div n_in > 1
              THEN scale_mat(fill_value, np_tile(np_eye(n_in, n_in), 1, n_out \div n_in))
              ELSE scale_mat(fill_value, np_eye(n_in, n_out))
    IN [w |-> wt, bias |-> Bias(bias, n_out), raised |-> "none"]

(* opposing_synapses, lines 259-263 *)

AntiDiag == Mat(2, 2,
        [x \in Idx(2), y \in Idx(2) |-> IF x = y THEN 0 ELSE 1])

opposing_synapses(n_in, n_out, fill_value, bias) ==
    [w |-> np_kron(scale_mat(fill_value, AntiDiag), np_eye(n_in \div 2, n_out \div 2)),
     bias |-> Bias(bias, n_out), raised |-> "none"]

(* sinusoidal_synapses, lines 288-295.  An entry fill * (1 - cos(2 pi * k / n)) / 2 *)
(* is held as <<fill, k, n>>: the phase k/n of a turn, k = (j*nb_in + i*nb_out)     *)
(* mod n, n = nb_in * nb_out.                                                     *)

sinusoidal_synapses(n_in, n_out, fill_value, bias) ==
    [w |-> Mat(n_in, n_out,
               [x \in Idx(n_in), y \in Idx(n_out) |->
                   <<fill_value, (y * n_in + x * n_out) % (n_in * n_out), n_in * n_out>>]),
     bias |-> Bias(bias, n_out), raised |-> "none"]

(* pattern_synapses, lines 443-447 *)

pattern_synapses(pattern, patch, bias) ==
    LET wk == np_kron(pattern, patch)
    IN [w |-> wk, bias |-> Bias(bias, Cols(wk)), raised |-> "none"]

(* chessboard_synapses, lines 324-331 *)

chessboard_synapses(n_in, n_out, fill_value, nb_rows, nb_cols, bias) ==
    LET pattern == Mat(nb_rows, nb_cols,
                       [x \in Idx(nb_rows), y \in Idx(nb_cols) |->
                           IF (x % 2 = 0) = (y % 2 = 0) THEN 1 ELSE 0])
        patch == IF n_out \div n_in > 1 THEN np_full(1, n_out \div n_in, fill_value)
                 ELSE IF n_in \div n_out > 1 THEN np_full(n_in \div n_out, 1, fill_value)
                 ELSE np_full(1, 1, fill_value)
    IN pattern_synapses(pattern, patch, bias)

(* roll_synapses, lines 473-483 *)

\* the index a Python slice bound k denotes on an axis of length n
SliceIndex(n, k) == IF k < 0 THEN Max(n + k, 0) ELSE Min(k, n)

\* m[:, a:b] and m[a:b, :] for normalised 0 <= a, b <= length
SliceCols(m, a, b) == Mat(Rows(m), Max(b - a, 0),
        [x \in Idx(Rows(m)), y \in Idx(Max(b - a, 0)) |-> m.at[x][y + a]])
SliceRows(m, a, b) == Mat(Max(b - a, 0), Cols(m),
        [x \in Idx(Max(b - a, 0)), y \in Idx(Cols(m)) |-> m.at[x + a][y]])

np_hstack(a, b) ==
    Mat(Rows(a), Cols(a) + Cols(b),
        [x \in Idx(Rows(a)), y \in Idx(Cols(a) + Cols(b)) |-> IF y < Cols(a) THEN a.at[x][y] ELSE b.at[x][y - Cols(a)]])

np_vstack(a, b) ==
    Mat(Rows(a) + Rows(b), Cols(a),
        [x \in Idx(Rows(a) + Rows(b)), y \in Idx(Cols(a)) |-> IF x < Rows(a) THEN a.at[x][y] ELSE b.at[x - Rows(a)][y]])

\* np.hstack([m[:, k:], m[:, :k]]) and np.vstack([m[k:, :], m[:k, :]])
RollCols(m, k) ==
    np_hstack(SliceCols(m, SliceIndex(Cols(m), k), Cols(m)), SliceCols(m, 0, SliceIndex(Cols(m), k)))
RollRows(m, k) ==
    np_vstack(SliceRows(m, SliceIndex(Rows(m), k), Rows(m)), SliceRows(m, 0, SliceIndex(Rows(m), k)))

\* int(None) raises TypeError: the call returns nothing
roll_synapses(m, left, right, up, down) ==
    LET w1 == IF ~IsNone(left) THEN RollCols(m, Val(left))
              ELSE IF ~IsNone(right) THEN RollCols(m, 0 - Val(right))
              ELSE m
    IN IF ~IsNone(up)
       THEN IF IsNone(left)
            THEN [raised |-> "TypeError"]
            ELSE [w |-> RollRows(w1, Val(left)), bias |-> None, raised |-> "none"]
       ELSE IF ~IsNone(down)
       THEN IF IsNone(right)
            THEN [raised |-> "TypeError"]
            ELSE [w |-> RollRows(w1, 0 - Val(right)), bias |-> None, raised |-> "none"]
       ELSE [w |-> w1, bias |-> None, raised |-> "none"]

---------------------------------------------------------------------------
(* Calls of the deterministic builders *)

Dims == 1..MaxDim
Fills == {1, 2}
Biases == {None, Some(1)}

\* a matrix whose entries are all different: entry (x, y) is x * cols + y + 1
Labelled(r, c) == Mat(r, c,
        [x \in Idx(r), y \in Idx(c) |-> x * c + y + 1])

UniformCalls ==
    {[fn |-> "uniform_synapses", nb_in |-> n, nb_out |-> m, fill_value |-> f, bias |-> b] :
        n \in Dims, m \in Dims, f \in Fills, b \in Biases}
DiagonalCalls ==
    {[fn |-> "diagonal_synapses", nb_in |-> n, nb_out |-> m, fill_value |-> f, tile |-> t,
      bias |-> b] : n \in Dims, m \in Dims, f \in Fills, t \in BOOLEAN, b \in Biases}
OpposingCalls ==
    {[fn |-> "opposing_synapses", nb_in |-> n, nb_out |-> m, fill_value |-> f, bias |-> b] :
        n \in Dims, m \in Dims, f \in Fills, b \in Biases}
SinusoidalCalls ==
    {[fn |-> "sinusoidal_synapses", nb_in |-> n, nb_out |-> m, fill_value |-> f, bias |-> b] :
        n \in Dims, m \in Dims, f \in Fills, b \in Biases}
\* nb_rows and nb_cols keep their default, 2
ChessboardCalls ==
    {[fn |-> "chessboard_synapses", nb_in |-> n, nb_out |-> m, fill_value |-> f,
      nb_rows |-> 2, nb_cols |-> 2, bias |-> b] :
        n \in Dims, m \in Dims, f \in Fills, b \in Biases}
RollCalls ==
    {[fn |-> "roll_synapses", w |-> Labelled(r, c), left |-> l, right |-> rt, up |-> u,
      down |-> d] :
        r \in 1..MaxRollDim, c \in 1..MaxRollDim, l \in Opt(0..MaxShift),
        rt \in Opt(0..MaxShift), u \in Opt(0..MaxShift), d \in Opt(0..MaxShift)}

Pending == ret.raised = "pending"

CallUniform ==
    /\ call.fn = "uniform_synapses" /\ Pending
    /\ ret' = uniform_synapses(call.nb_in, call.nb_out, call.fill_value, call.bias)
    /\ UNCHANGED <<call, sparse_vars>>

CallDiagonal ==
    /\ call.fn = "diagonal_synapses" /\ Pending
    /\ ret' = diagonal_synapses(call.nb_in, call.nb_out, call.fill_value, call.tile, call.bias)
    /\ UNCHANGED <<call, sparse_vars>>

CallOpposing ==
    /\ call.fn = "opposing_synapses" /\ Pending
    /\ ret' = opposing_synapses(call.nb_in, call.nb_out, call.fill_value, call.bias)
    /\ UNCHANGED <<call, sparse_vars>>

CallSinusoidal ==
    /\ call.fn = "sinusoidal_synapses" /\ Pending
    /\ ret' = sinusoidal_synapses(call.nb_in, call.nb_out, call.fill_value, call.bias)
    /\ UNCHANGED <<call, sparse_vars>>

CallChessboard ==
    /\ call.fn = "chessboard_synapses" /\ Pending
    /\ ret' = chessboard_synapses(call.nb_in, call.nb_out, call.fill_value,
                                  call.nb_rows, call.nb_cols, call.bias)
    /\ UNCHANGED <<call, sparse_vars>>

CallRoll ==
    /\ call.fn = "roll_synapses" /\ Pending
    /\ ret' = roll_synapses(call.w, call.left, call.right, call.up, call.down)
    /\ UNCHANGED <<call, sparse_vars>>

\* a builder is about to be called; sparse_synapses is not
InitBuilders ==
    /\ pc = "call"
    /\ nb_in = 2
    /\ nb_out = 1
    /\ nb_in_min = None
    /\ nb_in_max = None
    /\ min_corr = <<1, 5>>
    /\ normalise = TRUE
    /\ w = np_full(0, 0, 0)
    /\ nb_out_in = <<>>
    /\ c_out_in = <<>>
    /\ duplicates = {}
    /\ i = 0
    /\ call \in UniformCalls \cup DiagonalCalls \cup OpposingCalls \cup SinusoidalCalls
                \cup ChessboardCalls \cup RollCalls
    /\ ret = NoRet

NextBuilders ==
    CallUniform \/ CallDiagonal \/ CallOpposing \/ CallSinusoidal \/ CallChessboard \/ CallRoll

SpecBuilders == InitBuilders /\ [][NextBuilders]_vars

---------------------------------------------------------------------------
(* Properties of sparse_synapses *)

\* the number of non-zero entries of column j
FanIn(m, j) == Cardinality({x \in 0..(Rows(m) - 1) : m.at[x][j] # 0})

\* the arguments the claims are about: nb_in >= 2, 1 <= nb_in_min <= nb_in_max <= nb_in
ArgsInRange ==
    /\ nb_in >= 2 /\ nb_out >= 1
    /\ 1 <= Val(nb_in_min) /\ Val(nb_in_min) <= Val(nb_in_max) /\ Val(nb_in_max) <= nb_in

\* the similarity matrix is about to be computed (line 211)
AtSimilarity == pc = "inner" /\ ~(SumC < SumT)

\* C1: whenever sparse_synapses returns, every output unit's fan-in (the number of
\* non-zero entries of its column) is >= nb_in_min and < nb_in_max.
C1_FanInWithinBounds ==
    (pc = "returned" /\ ArgsInRange) =>
        \A j \in Outs : FanIn(w, j) >= Val(nb_in_min) /\ FanIn(w, j) < Val(nb_in_max)

\* C2: whenever sparse_synapses returns, every two distinct columns have a defined
\* cosine similarity (no column is all-zero) and it is strictly below min_corr.
C2_ReturnedDecorrelated ==
    pc = "returned" =>
        /\ \A j \in Outs : FanIn(w, j) > 0
        /\ \A j, k \in Outs : j # k => ~IsNaN(w, j, k) /\ ~CorrGE(w, j, k, min_corr)

\* C8: with min_corr = 0, nb_in >= 2 and nb_out >= 2 the retry loop never exits: the
\* regeneration set is never empty, and the call neither returns nor raises.
C8_ZeroThresholdNeverReturns ==
    (pc # "call" /\ min_corr[1] = 0 /\ nb_in >= 2 /\ nb_out >= 2) =>
        /\ pc \notin {"returned", "ValueError"}
        /\ duplicates # {}

\* C9: where the similarity matrix is computed, in every iteration of the retry loop,
\* every unit j of the regeneration set has exactly nb_out_in[j] non-zero entries, each
\* 1/nb_out_in[j] (normalise) or 1, and c_out_in[j] counts them.
C9_RegeneratedColumnsFilled ==
    AtSimilarity =>
        \A j \in duplicates :
            /\ FanIn(w, j) = nb_out_in[j]
            /\ c_out_in[j] = FanIn(w, j)
            /\ \A x \in Ins : w.at[x][j] \in
                   {0, IF normalise THEN Scale \div nb_out_in[j] ELSE Scale}

\* One iteration of the assignment loop has run.
PassStep == pc = "inner" /\ pc' = "inner"

\* C10: the assignment loop cannot stall.  Every pass assigns each (input, output)
\* pair at most once (the counter of a column grows by exactly the number of its
\* entries that turned from zero to non-zero, and no non-zero entry changes); a pass
\* that assigns nothing advances the input index by one modulo nb_in; and, every
\* target being <= nb_in, the loop is left after finitely many passes.
C10_AssignmentCannotStall ==
    /\ [][PassStep =>
            /\ \A j \in Outs :
                  /\ c_out_in'[j] - c_out_in[j] =
                        Cardinality({x \in Ins : w.at[x][j] = 0 /\ w'.at[x][j] # 0})
                  /\ \A x \in Ins : w.at[x][j] # 0 => w'.at[x][j] = w.at[x][j]
            /\ (c_out_in' = c_out_in => i' = (i + 1) % nb_in)]_vars
    /\ ((pc = "inner" /\ \A j \in Outs : nb_out_in[j] <= nb_in) ~> (pc # "inner"))

\* The loop is at a row that every unfinished unit is already connected to: the next
\* pass can assign nothing, whatever the visiting order.
C10_Witness_BlockedRow ==
    /\ pc = "inner" /\ SumC < SumT
    /\ \A j \in Outs : nb_out_in[j] <= nb_in
    /\ \A j \in duplicates : c_out_in[j] >= nb_out_in[j] \/ w.at[i][j] > 0

---------------------------------------------------------------------------
(* Properties of the deterministic builders *)

Returned == ret.raised = "none"

ShapeBuilders ==
    {"uniform_synapses", "diagonal_synapses", "opposing_synapses", "sinusoidal_synapses",
     "chessboard_synapses"}

\* C4: every deterministic builder that returns gives a matrix of nb_in rows and
\* nb_out columns and, when a bias is requested, a bias vector of nb_out elements.
C4_BuilderShape ==
    (call.fn \in ShapeBuilders /\ Returned) =>
        /\ ret.w.shape = <<call.nb_in, call.nb_out>>
        /\ ~IsNone(call.bias) => (~IsNone(ret.bias) /\ Len(Val(ret.bias)) = call.nb_out)

\* a is b times an integer factor > 1
IsMultiple(a, b) == a % b = 0 /\ a \div b > 1

\* the matrix the tiled diagonal is said to be
TiledDiagonal(n_in, n_out, fill_value) ==
    LET k == Min(n_in, n_out)
    IN Mat(n_in, n_out,
           [x \in Idx(n_in), y \in Idx(n_out) |-> IF x % k = y % k THEN fill_value ELSE 0])

\* C5: diagonal_synapses with tile=True gives entry (i, j) = fill_value iff
\* i mod min(nb_in, nb_out) = j mod min(nb_in, nb_out) when one dimension is an exact
\* multiple (> 1) of the other, and the result of tile=False for every other pair.
C5_TileOnlyExactMultiples ==
    (call.fn = "diagonal_synapses" /\ Returned /\ call.tile) =>
        ret.w = IF IsMultiple(call.nb_in, call.nb_out) \/ IsMultiple(call.nb_out, call.nb_in)
                THEN TiledDiagonal(call.nb_in, call.nb_out, call.fill_value)
                ELSE diagonal_synapses(call.nb_in, call.nb_out, call.fill_value,
                                       FALSE, call.bias).w

\* C6: opposing_synapses with an odd nb_in or an odd nb_out ends in an error and
\* returns no matrix.
C6_OpposingRejectsOdd ==
    (call.fn = "opposing_synapses" /\ ~Pending /\ (call.nb_in % 2 = 1 \/ call.nb_out % 2 = 1)) =>
        ~Returned

\* call.w after its horizontal shift, if any
AfterHorizontal ==
    IF ~IsNone(call.left) THEN RollCols(call.w, Val(call.left))
    ELSE IF ~IsNone(call.right) THEN RollCols(call.w, 0 - Val(call.right))
    ELSE call.w

\* m with its rows moved up by k places, circularly
ShiftedUp(m, k) == Mat(Rows(m), Cols(m),
        [x \in Idx(Rows(m)), y \in Idx(Cols(m)) |-> m.at[(x + k) % Rows(m)][y]])

\* C7: roll_synapses shifts the rows by up (upward), or else by down (downward),
\* 0 <= k < rows, whatever left and right are, unset included.
C7_RowShiftIsVerticalArgument ==
    (call.fn = "roll_synapses" /\ ~Pending) =>
        /\ (~IsNone(call.up) /\ Val(call.up) < Rows(call.w)) =>
               Returned /\ ret.w = ShiftedUp(AfterHorizontal, Val(call.up))
        /\ (IsNone(call.up) /\ ~IsNone(call.down) /\ Val(call.down) < Rows(call.w)) =>
               Returned /\ ret.w = ShiftedUp(AfterHorizontal, Rows(call.w) - Val(call.down))

---------------------------------------------------------------------------
(* sparse_synapses called without nb_in_min and nb_in_max *)

\* the call is about to be made with both fan-in bounds left to their defaults
InitDefaults ==
    /\ pc = "call"
    /\ nb_in \in 1..MaxDefaultNbIn
    /\ nb_out \in 1..MaxNbOut
    /\ nb_in_min = None
    /\ nb_in_max = None
    /\ min_corr = <<1, 5>>
    /\ normalise = TRUE
    /\ w = np_full(0, 0, 0)
    /\ nb_out_in = <<>>
    /\ c_out_in = <<>>
    /\ duplicates = {}
    /\ i = 0
    /\ call = NoCall
    /\ ret = NoRet

\* lines 178-191 only: the bounds are defaulted and the targets drawn
SpecDefaults == InitDefaults /\ [][Enter]_vars

\* a / b rounded to the nearest integer, ties to even (Python's round), a >= 0, b > 0
RoundNearest(a, b) ==
    LET q == a \div b
        r == a % b
    IN IF 2 * r > b THEN q + 1
       ELSE IF 2 * r < b THEN q
       ELSE IF q % 2 = 0 THEN q ELSE q + 1

\* the bounds have been defaulted and the targets drawn
TargetsDrawn == pc = "outer"

TargetsWithinBounds ==
    \A j \in Outs : Val(nb_in_min) <= nb_out_in[j] /\ nb_out_in[j] <= Val(nb_in_max)

\* C11 as stated: the defaults are max(1, round(nb_in * 0.006)) and
\* max(1, round(nb_in * 0.014)), rounded to the nearest integer, and every drawn target
\* lies between them.
C11_DefaultsRounded ==
    TargetsDrawn =>
        /\ Val(nb_in_min) = Max(1, RoundNearest(nb_in * 6, 1000))
        /\ Val(nb_in_max) = Max(1, RoundNearest(nb_in * 14, 1000))
        /\ TargetsWithinBounds

\* m is max(1, x) for x the integer part of n * k / 1000, said without division
IsTruncatedPerMille(m, n, k) ==
    IF n * k < 1000 THEN m = 1 ELSE m * 1000 <= n * k /\ n * k < (m + 1) * 1000

\* C11 amended: the defaults are max(1, trunc(nb_in * 0.006)) and
\* max(1, trunc(nb_in * 0.014)), the integer part and not the nearest integer, and
\* every drawn target satisfies nb_in_min <= target <= nb_in_max.
C11_DefaultsTruncated ==
    TargetsDrawn =>
        /\ IsTruncatedPerMille(Val(nb_in_min), nb_in, 6)
        /\ IsTruncatedPerMille(Val(nb_in_max), nb_in, 14)
        /\ TargetsWithinBounds

\* The targets are drawn where truncation and rounding differ for both bounds
\* (nb_in = 250: 1.5 and 3.5), the lower default above 1 being out of reach of the
\* truncation but not of the rounding.
C11_Witness_RoundingDiffers ==
    /\ TargetsDrawn
    /\ RoundNearest(nb_in * 6, 1000) > (nb_in * 6) \div 1000
    /\ RoundNearest(nb_in * 14, 1000) > (nb_in * 14) \div 1000
    /\ nb_in * 14 >= 1000

====
